---- MODULE Spec2Model ----
(***************************************************************************)
(* http-aws4 (src/src/http-aws4.js): a command-line client that signs one  *)
(* HTTP request with AWS Signature Version 4 and sends it.                 *)
(*                                                                         *)
(* Strings are sequences of one-character strings, so that the regular     *)
(* expressions, substr/indexOf and the case conversions of the script are  *)
(* computed character by character.                                        *)
(***************************************************************************)
EXTENDS Integers, Sequences, FiniteSets, TLC

VARIABLES
    cmdline,      \* process.argv as the user typed it (structured)
    argv,         \* yargs options: region, service, profile        (l.23-67)
    args,         \* argv._ : the positional arguments still unshifted (l.69)
    method,       \* l.70
    url,          \* l.70
    region,       \* l.70
    service,      \* l.70
    headers,      \* l.95  caller-supplied headers, lowercase name -> value
    pc,           \* position of the script / promise pipeline
    stdinP,       \* promise of getStdin()                           (l.235)
    credsP,       \* promise of getCredentials()                     (l.235)
    request,      \* the AWS.HttpRequest built by createRequest      (l.178)
    signCount,    \* calls of signer.addAuthorization that returned  (l.191)
    sendCount,    \* calls of client.handleRequest                   (l.205)
    sendP,        \* promise returned by handleRequest               (l.195)
    response,     \* the IncomingMessage handed to handleResponse    (l.208)
    metadata,     \* l.210
    arrived,      \* the data chunks the response stream emitted, in order
    respP,        \* promise returned by handleResponse              (l.208)
    settled,      \* which of the two promises of l.235 settled, in order
    outcome       \* what the run printed and how the process ended

vars == <<cmdline, argv, args, method, url, region, service, headers, pc,
          stdinP, credsP, request, signCount, sendCount, sendP, response,
          metadata, arrived, respP, settled, outcome>>

(***************************************************************************)
(* Bounds of the model.                                                    *)
(***************************************************************************)
MaxLabels == 2        \* host labels in front of the domain suffix
MaxHeaderArgs == 2    \* header arguments on the command line
MaxChunks == 2        \* data events of one response

(***************************************************************************)
(* Characters and strings.                                                 *)
(***************************************************************************)
LowerSeq == <<"a","b","c","d","e","f","g","h","i","j","k","l","m",
              "n","o","p","q","r","s","t","u","v","w","x","y","z">>
UpperSeq == <<"A","B","C","D","E","F","G","H","I","J","K","L","M",
              "N","O","P","Q","R","S","T","U","V","W","X","Y","Z">>
Lower == {LowerSeq[i] : i \in 1..26}
Upper == {UpperSeq[i] : i \in 1..26}
Digit == {"0","1","2","3","4","5","6","7","8","9"}

\* \w
WordChar == Lower \cup Upper \cup Digit \cup {"_"}
\* [a-z0-9-] under the i flag
RegionChar == Lower \cup Upper \cup Digit \cup {"-"}

\* null / undefined, for string-valued variables
NULL == <<"null">>
\* null, for object-valued variables
NoObject == [null |-> TRUE]

toLowerChar(c) ==
    IF c \in Upper THEN LowerSeq[CHOOSE i \in 1..26 : UpperSeq[i] = c] ELSE c
toUpperChar(c) ==
    IF c \in Lower THEN UpperSeq[CHOOSE i \in 1..26 : LowerSeq[i] = c] ELSE c
toLowerCase(s) == [i \in 1..Len(s) |-> toLowerChar(s[i])]
toUpperCase(s) == [i \in 1..Len(s) |-> toUpperChar(s[i])]

\* String.prototype.indexOf for a one-character needle, 1-based; 0 = not found
indexOf(s, c) ==
    IF \E i \in 1..Len(s) : s[i] = c
    THEN CHOOSE i \in 1..Len(s) : s[i] = c /\ \A j \in 1..(i-1) : s[j] # c
    ELSE 0

AllIn(s, i, j, C) == \A k \in i..j : s[k] \in C
LitAt(s, i, lit) ==
    /\ i >= 1
    /\ i + Len(lit) - 1 <= Len(s)
    /\ \A k \in 1..Len(lit) : s[i + k - 1] = lit[k]
Min(S) == CHOOSE x \in S : \A y \in S : x <= y
Max(S) == CHOOSE x \in S : \A y \in S : x >= y

\* the literal \.amazonaws\.com of both expressions (l.87, l.92)
AmazonLit == <<".","a","m","a","z","o","n","a","w","s",".","c","o","m">>
\* (?:\/|:|$) at position i
Boundary(s, i) == i = Len(s) + 1 \/ (i <= Len(s) /\ s[i] \in {"/", ":"})
\* the positions where \.amazonaws\.com(?:\/|:|$) matches, case-insensitively
AmazonAt(s) ==
    {k \in 1..Len(s) : LitAt(toLowerCase(s), k, AmazonLit)
                          /\ Boundary(s, k + Len(AmazonLit))}

(***************************************************************************)
(* l.87  /([a-z0-9-]+)\.\w+\.amazonaws\.com(?:\/|:|$)/i.exec(url)          *)
(* A match is <<i, j, k>>: group 1 is s[i..j-1], s[j] is the dot, \w+ is   *)
(* s[j+1..k-1], the literal starts at k.  exec returns the leftmost match, *)
(* each + taking as much as it can.                                        *)
(***************************************************************************)
RegionMatches(s) ==
    UNION { UNION { {<<i, j, k>> : i \in {x \in 1..(j-1) : AllIn(s, x, j-1, RegionChar)}}
                    : j \in {y \in 1..(k-2) : s[y] = "." /\ AllIn(s, y+1, k-1, WordChar)} }
            : k \in AmazonAt(s) }

\* the expression with [a-z0-9-]+ for the second label too
regionExec_hyphenSecondLabel(s) ==
    LET M == UNION { UNION { {<<i, j, k>> : i \in {x \in 1..(j-1) : AllIn(s, x, j-1, RegionChar)}}
                       : j \in {y \in 1..(k-2) : s[y] = "." /\ AllIn(s, y+1, k-1, RegionChar)} }
                     : k \in AmazonAt(s) }
    IN  IF M = {} THEN [matched |-> FALSE, group |-> NULL]
        ELSE LET i == Min({m[1] : m \in M})
                 j == Max({m[2] : m \in {x \in M : x[1] = i}})
             IN  [matched |-> TRUE, group |-> SubSeq(s, i, j-1)]

regionExec(s) ==
    LET M == RegionMatches(s) IN
    IF M = {} THEN [matched |-> FALSE, group |-> NULL]
    ELSE LET i == Min({m[1] : m \in M})
             j == Max({m[2] : m \in {x \in M : x[1] = i}})
         IN  [matched |-> TRUE, group |-> SubSeq(s, i, j-1)]

(***************************************************************************)
(* l.92  /(\w+)\.amazonaws\.com(?:\/|:|$)/i.exec(url)                      *)
(* A match is <<i, k>>: group 1 is s[i..k-1], the literal starts at k.     *)
(***************************************************************************)
ServiceMatches(s) ==
    UNION { {<<i, k>> : i \in {x \in 1..(k-1) : AllIn(s, x, k-1, WordChar)}}
            : k \in AmazonAt(s) }

\* the expression with ([a-z0-9-]+) for (\w+)
serviceExec_hyphenLabel(s) ==
    LET M == UNION { {<<i, k>> : i \in {x \in 1..(k-1) : AllIn(s, x, k-1, RegionChar)}}
                     : k \in AmazonAt(s) }
    IN  IF M = {} THEN [matched |-> FALSE, group |-> NULL]
        ELSE LET i == Min({m[1] : m \in M})
                 k == Max({m[2] : m \in {x \in M : x[1] = i}})
             IN  [matched |-> TRUE, group |-> SubSeq(s, i, k-1)]

serviceExec(s) ==
    LET M == ServiceMatches(s) IN
    IF M = {} THEN [matched |-> FALSE, group |-> NULL]
    ELSE LET i == Min({m[1] : m \in M})
             k == Max({m[2] : m \in {x \in M : x[1] = i}})
         IN  [matched |-> TRUE, group |-> SubSeq(s, i, k-1)]

(***************************************************************************)
(* URLs.  l.80 normalizeUrl(url, {stripWWW: false, ...}) of normalize-url  *)
(* 1.9: prepend http:// to a string without protocol, refuse a string with *)
(* neither host nor path, lowercase the host, drop the protocol's default  *)
(* port, drop one trailing slash.                                          *)
(***************************************************************************)
SchemeSep == <<":","/","/">>
\* position of the first "://" whose prefix is \w+, 0 when the string has none
SchemeEnd(s) ==
    LET P == {n \in 1..Len(s) : AllIn(s, 1, n, WordChar) /\ LitAt(s, n+1, SchemeSep)}
    IN  IF P = {} THEN 0 ELSE Min(P)
prependHttp(s) == IF SchemeEnd(s) = 0 THEN <<"h","t","t","p">> \o SchemeSep \o s ELSE s
\* first position after the authority (host[:port]) of a string with a protocol
AuthorityEnd(s) ==
    LET a == SchemeEnd(s) + 4
        P == {n \in a..Len(s) : s[n] \in {"/", "?", "#"}}
    IN  IF P = {} THEN Len(s) + 1 ELSE Min(P)
Authority(s) == SubSeq(s, SchemeEnd(s) + 4, AuthorityEnd(s) - 1)
DefaultPort(scheme) ==
    IF scheme = <<"h","t","t","p","s">> THEN <<":","4","4","3">>
    ELSE IF scheme = <<"h","t","t","p">> THEN <<":","8","0">>
    ELSE NULL
EndsWith(s, suf) == Len(suf) <= Len(s) /\ LitAt(s, Len(s) - Len(suf) + 1, suf)
stripSuffix(s, suf) == IF EndsWith(s, suf) THEN SubSeq(s, 1, Len(s) - Len(suf)) ELSE s

normalizeUrl(str) ==
    LET s      == prependHttp(str)
        scheme == toLowerCase(SubSeq(s, 1, SchemeEnd(s)))
        auth   == stripSuffix(toLowerCase(Authority(s)), DefaultPort(scheme))
        rest   == SubSeq(s, AuthorityEnd(s), Len(s))
        out    == scheme \o SchemeSep \o auth \o rest
    IN  IF auth = <<>> /\ rest = <<>>
        THEN [ok |-> FALSE, value |-> NULL]
        ELSE [ok |-> TRUE, value |-> stripSuffix(out, <<"/">>)]

\* endpoint.host of new AWS.Endpoint(url) (l.179): the URL's authority
EndpointHost(u) == Authority(u)

(***************************************************************************)
(* JavaScript objects used as maps: functions from names to values.        *)
(***************************************************************************)
EmptyObject == [k \in {} |-> NULL]
\* Object.assign(target, source): the source's entries overwrite
objectAssign(target, source) ==
    [k \in (DOMAIN target) \cup (DOMAIN source) |->
        IF k \in DOMAIN source THEN source[k] ELSE target[k]]
\* lowercase-keys
lowercaseKeys(o) ==
    [k \in {toLowerCase(n) : n \in DOMAIN o} |->
        o[CHOOSE n \in DOMAIN o : toLowerCase(n) = k]]

H_host == <<"h","o","s","t">>
H_user_agent == <<"u","s","e","r","-","a","g","e","n","t">>
H_User_Agent == <<"U","s","e","r","-","A","g","e","n","t">>
H_Authorization == <<"A","u","t","h","o","r","i","z","a","t","i","o","n">>
H_X_Amz_Date == <<"X","-","A","m","z","-","D","a","t","e">>

\* l.14
USER_AGENT == <<"http-aws4/0.7.0 (https://github.com/timdp/http-aws4)">>
\* the header new AWS.HttpRequest(endpoint) starts with (l.180)
SdkDefaultHeaders == (H_User_Agent :> <<"aws-sdk-nodejs">>)

(***************************************************************************)
(* The command lines of the model.                                         *)
(***************************************************************************)
L_dynamodb == <<"d","y","n","a","m","o","d","b">>
L_us_west_2 == <<"u","s","-","w","e","s","t","-","2">>
L_ES == <<"E","S">>
Labels == {L_dynamodb, L_us_west_2, L_ES}
D_amazonaws_com == <<"a","m","a","z","o","n","a","w","s",".","c","o","m">>
D_example_com == <<"e","x","a","m","p","l","e",".","c","o","m">>
Domains == {D_amazonaws_com, D_example_com}
S_https == <<"h","t","t","p","s",":","/","/">>
Schemes == {<<>>, S_https}
T_slash == <<"/">>
T_port_path == <<":","8","4","4","3","/","p">>
Tails == {T_slash, T_port_path}

LabelSeqs(n) == UNION {[1..m -> Labels] : m \in 0..n}

RECURSIVE JoinLabels(_)
JoinLabels(ls) == IF ls = <<>> THEN <<>> ELSE Head(ls) \o <<".">> \o JoinLabels(Tail(ls))
\* the URL argument as typed
RenderUrl(u) ==
    IF u.malformed THEN <<>>
    ELSE u.scheme \o JoinLabels(u.labels) \o u.domain \o u.tail

UrlArgs(n) ==
    [malformed : {FALSE}, scheme : {S_https}, labels : LabelSeqs(n),
     domain : Domains, tail : Tails]
MalformedUrlArg ==
    [malformed |-> TRUE, scheme |-> <<>>, labels |-> <<>>,
     domain |-> D_example_com, tail |-> T_slash]
\* us-west-2.dynamodb.amazonaws.com, with or without protocol, port and path
PlainUrlArgs(schemes, tails) ==
    [malformed : {FALSE}, scheme : schemes, labels : {<<L_us_west_2, L_dynamodb>>},
     domain : {D_amazonaws_com}, tail : tails]

A_Host_h == <<"H","o","s","t",":","h",".","i","o">>
A_host_g == <<"h","o","s","t",":","g",":","1">>
A_X_A_1 == <<"X","-","A",":","1">>
HeaderArgs == {A_Host_h, A_host_g, A_X_A_1}
HeaderArgSeqs(n) == UNION {[1..m -> HeaderArgs] : m \in 0..n}

M_post == <<"p","o","s","t">>
R_eu_west_1 == <<"e","u","-","w","e","s","t","-","1">>
V_s3 == <<"s","3">>
P_dev == <<"d","e","v">>

\* Command lines that vary the host and the --region / --service options,
UrlCmdLines ==
    [method : {NULL}, urlArg : UrlArgs(MaxLabels) \cup {MalformedUrlArg},
     headerArgs : {<<>>}, region : {NULL, R_eu_west_1}, service : {NULL, V_s3},
     profile : {NULL}]
\* command lines that vary the header arguments,
HeaderCmdLines ==
    [method : {NULL}, urlArg : PlainUrlArgs({S_https}, Tails),
     headerArgs : HeaderArgSeqs(MaxHeaderArgs), region : {NULL}, service : {NULL},
     profile : {NULL}]
\* and command lines that vary the method, the protocol and --profile.
MethodCmdLines ==
    [method : {NULL, M_post}, urlArg : PlainUrlArgs(Schemes, {T_slash}),
     headerArgs : {<<>>}, region : {NULL}, service : {NULL},
     profile : {NULL, P_dev}]
CmdLines == UrlCmdLines \cup HeaderCmdLines \cup MethodCmdLines

(***************************************************************************)
(* Values the environment supplies.                                        *)
(***************************************************************************)
Bodies == {<<>>, <<"{","}">>}
EnvCredentials == [accessKeyId |-> "AKIDENV", source |-> NULL]
ProfileCredentials(p) == [accessKeyId |-> "AKIDPROFILE", source |-> p]
StatusCodes == {199, 200, 299, 300}
StatusMessage(c) == IF c = 200 THEN "OK" ELSE "Status"
ResponseHeaders == [contentType |-> "application/json"]
Chunks == {<<"a">>, <<"b","c">>}

NoOutcome == [kind |-> "none", exitCode |-> 0, error |-> "none", at |-> 0,
              channel |-> "none", printed |-> "none", shown |-> NoObject]
\* the credentials object a callback sees before there are credentials
NoCredentials == [accessKeyId |-> "undefined", source |-> NULL]
\* a promise: its state and, once fulfilled, its value
Promise(state, value) == [state |-> state, value |-> value]

Init ==
    /\ cmdline \in CmdLines
    /\ argv = [region |-> cmdline.region, service |-> cmdline.service,
               profile |-> cmdline.profile]
    /\ args = (IF cmdline.method = NULL THEN <<>> ELSE <<cmdline.method>>)
              \o <<RenderUrl(cmdline.urlArg)>> \o cmdline.headerArgs
    /\ method = NULL
    /\ url = NULL
    /\ region = NULL
    /\ service = NULL
    /\ headers = EmptyObject
    /\ pc = "start"
    /\ stdinP = Promise("none", NULL)
    /\ credsP = Promise("none", NoCredentials)
    /\ request = NoObject
    /\ signCount = 0
    /\ sendCount = 0
    /\ sendP = Promise("none", NoObject)
    /\ response = NoObject
    /\ metadata = NoObject
    /\ arrived = <<>>
    /\ respP = Promise("none", NoObject)
    /\ settled = <<>>
    /\ outcome = NoOutcome

(***************************************************************************)
(* How a run ends.                                                         *)
(***************************************************************************)
\* an exception thrown by the top-level script, which nothing catches: node
\* prints it and exits with code 1
Uncaught(name, line) ==
    [kind |-> "failure", exitCode |-> 1, error |-> name, at |-> line,
     channel |-> "uncaught", printed |-> "stack", shown |-> NoObject]

\* l.169-176
handleError(err) ==
    [kind |-> "failure", exitCode |-> 1, error |-> err.name, at |-> 169,
     channel |-> "error",
     printed |-> IF err.response # NoObject THEN "response" ELSE "stack",
     shown |-> IF err.response # NoObject THEN err.response ELSE NoObject]

\* l.141-167, called from l.241 with the default type 'info'; the process
\* then ends by itself, with code 0
formatResponse(resp) ==
    [kind |-> "success", exitCode |-> 0, error |-> "none", at |-> 241,
     channel |-> "info", printed |-> "response", shown |-> resp]

Error(name) == [name |-> name, response |-> NoObject]

\* resolve / reject of a promise: a settled promise stays as it is
settle(p, to) == IF p.state = "pending" THEN to ELSE p

(***************************************************************************)
(* The top-level script, l.69-103.                                         *)
(***************************************************************************)
\* /^\w+$/.test(s)  (l.72)
isWord(s) == Len(s) > 0 /\ AllIn(s, 1, Len(s), WordChar)

\* l.69-83
ParseArgs ==
    /\ pc = "start"
    /\ LET hasMethod == Len(args) > 0 /\ isWord(args[1])
           rest      == IF hasMethod THEN Tail(args) ELSE args
           n         == IF rest = <<>> THEN [ok |-> FALSE, value |-> NULL]
                        ELSE normalizeUrl(Head(rest))
       IN  /\ method' = IF hasMethod THEN toUpperCase(args[1]) ELSE <<"G","E","T">>
           /\ args' = IF rest = <<>> THEN rest ELSE Tail(rest)
           /\ IF n.ok
              THEN /\ url' = n.value
                   /\ pc' = "parsed"
                   /\ UNCHANGED outcome
              ELSE /\ url' = IF rest = <<>> THEN NULL ELSE Head(rest)
                   /\ pc' = "exited"
                   /\ outcome' = Uncaught(IF rest = <<>> THEN "TypeError" ELSE "Error", 80)
    /\ UNCHANGED <<cmdline, argv, region, service, headers, stdinP, credsP, request,
                   signCount, sendCount, sendP, response, metadata, arrived, respP,
                   settled>>

\* the host first, the override only when the host does not tell
resolveRegion_hostFirst(override, u) ==
    IF regionExec(u).matched \/ override = NULL
    THEN regionExec(u) ELSE [matched |-> TRUE, group |-> override]

\* l.85-88: the override, or group 1 of the expression's match
resolveRegion(override, u) ==
    IF override = NULL THEN regionExec(u) ELSE [matched |-> TRUE, group |-> override]

\* l.90-93
resolveService(override, u) ==
    IF override = NULL THEN serviceExec(u) ELSE [matched |-> TRUE, group |-> override]

\* l.85-88; exec(url)[1] on a null match throws a TypeError
ResolveRegion ==
    /\ pc = "parsed"
    /\ LET r == resolveRegion(argv.region, url)
       IN  IF r.matched
           THEN /\ region' = r.group
                /\ pc' = "region"
                /\ UNCHANGED outcome
           ELSE /\ region' = NULL
                /\ pc' = "exited"
                /\ outcome' = Uncaught("TypeError", 87)
    /\ UNCHANGED <<cmdline, argv, args, method, url, service, headers, stdinP, credsP,
                   request, signCount, sendCount, sendP, response, metadata, arrived,
                   respP, settled>>

\* l.90-93
ResolveService ==
    /\ pc = "region"
    /\ LET r == resolveService(argv.service, url)
       IN  IF r.matched
           THEN /\ service' = r.group
                /\ pc' = "service"
                /\ UNCHANGED outcome
           ELSE /\ service' = NULL
                /\ pc' = "exited"
                /\ outcome' = Uncaught("TypeError", 92)
    /\ UNCHANGED <<cmdline, argv, args, method, url, region, headers, stdinP, credsP,
                   request, signCount, sendCount, sendP, response, metadata, arrived,
                   respP, settled>>

\* l.98-99: one header argument; indexOf is 1-based here, 0 = no colon, where
\* substr(0, -1) is '' and substr(0) the whole argument
headerName(arg) == toLowerCase(SubSeq(arg, 1, indexOf(arg, ":") - 1))
headerValue(arg) == SubSeq(arg, indexOf(arg, ":") + 1, Len(arg))

\* l.95-100
RECURSIVE parseHeaders(_, _)
parseHeaders(as, h) ==
    IF as = <<>> THEN h
    ELSE parseHeaders(Tail(as),
                      objectAssign(h, headerName(Head(as)) :> headerValue(Head(as))))

\* l.95-100
ParseHeaders ==
    /\ pc = "service"
    /\ headers' = parseHeaders(args, EmptyObject)
    /\ args' = <<>>
    /\ pc' = "headers"
    /\ UNCHANGED <<cmdline, argv, method, url, region, service, stdinP, credsP, request,
                   signCount, sendCount, sendP, response, metadata, arrived, respP,
                   settled, outcome>>

(***************************************************************************)
(* The promise pipeline, l.231-242.                                        *)
(***************************************************************************)
\* l.231-235: getStdin() and getCredentials() are both called before either
\* completes; with --profile the credentials promise is born resolved
StartPipeline ==
    /\ pc = "headers"
    /\ stdinP' = Promise("pending", NULL)
    /\ IF argv.profile # NULL
       THEN /\ credsP' = Promise("fulfilled", ProfileCredentials(argv.profile))
            /\ settled' = <<"credentials">>
       ELSE /\ credsP' = Promise("pending", NoCredentials)
            /\ settled' = <<>>
    /\ pc' = "pipeline"
    /\ UNCHANGED <<cmdline, argv, args, method, url, region, service, headers, request,
                   signCount, sendCount, sendP, response, metadata, arrived, respP,
                   outcome>>

\* getStdin() resolves with everything read from standard input
StdinResolve ==
    /\ pc = "pipeline"
    /\ stdinP.state = "pending"
    /\ \E b \in Bodies : stdinP' = settle(stdinP, Promise("fulfilled", b))
    /\ settled' = Append(settled, "stdin")
    /\ UNCHANGED <<cmdline, argv, args, method, url, region, service, headers, pc, credsP,
                   request, signCount, sendCount, sendP, response, metadata, arrived,
                   respP, outcome>>

\* l.235: reading standard input fails.  get-stdin listens for no error event,
\* so the stream's error is an uncaught exception: node prints it and exits
\* with code 1, and the callbacks of l.236-242 never run
StdinError ==
    /\ pc = "pipeline"
    /\ stdinP.state = "pending"
    /\ outcome' = Uncaught("StdinError", 235)
    /\ pc' = "exited"
    /\ UNCHANGED <<cmdline, argv, args, method, url, region, service, headers, stdinP,
                   credsP, settled, request, signCount, sendCount, sendP, response,
                   metadata, arrived, respP>>

\* l.233: config.getCredentials calls back with credentials
CredentialsResolve ==
    /\ pc = "pipeline"
    /\ credsP.state = "pending"
    /\ credsP' = settle(credsP, Promise("fulfilled", EnvCredentials))
    /\ settled' = Append(settled, "credentials")
    /\ UNCHANGED <<cmdline, argv, args, method, url, region, service, headers, pc, stdinP,
                   request, signCount, sendCount, sendP, response, metadata, arrived,
                   respP, outcome>>

\* l.233: config.getCredentials calls back with an error
CredentialsReject ==
    /\ pc = "pipeline"
    /\ credsP.state = "pending"
    /\ credsP' = settle(credsP, Promise("rejected", NoCredentials))
    /\ settled' = Append(settled, "credentials")
    /\ outcome' = handleError(Error("CredentialsError"))
    /\ pc' = "exited"
    /\ UNCHANGED <<cmdline, argv, args, method, url, region, service, headers, stdinP,
                   request, signCount, sendCount, sendP, response, metadata, arrived,
                   respP>>

\* Promise.race for Promise.all
allFulfilled_any(ps) == \E i \in 1..Len(ps) : ps[i].state = "fulfilled"

\* l.235: Promise.all fulfils when every promise of the array has
allFulfilled(ps) == \A i \in 1..Len(ps) : ps[i].state = "fulfilled"
\* l.235-236: ... with the values in the order of the array
allValues(ps) == [i \in 1..Len(ps) |-> ps[i].value]

\* the caller's headers assigned last
requestHeaders_callerLast(defaults, callerHeaders, host) ==
    objectAssign(objectAssign(objectAssign(lowercaseKeys(defaults),
                                           H_user_agent :> USER_AGENT),
                              H_host :> host),
                 callerHeaders)

\* l.185-189
requestHeaders(defaults, callerHeaders, host) ==
    objectAssign(objectAssign(objectAssign(lowercaseKeys(defaults),
                                           H_user_agent :> USER_AGENT),
                              callerHeaders),
                 H_host :> host)

\* l.190-191: AWS.Signers.V4(request, service).addAuthorization(credentials,
\* date) dates the request and adds the Authorization header, which covers
\* the request as it is at that moment
addAuthorization(req, serviceName, credentials) ==
    LET dated == objectAssign(req.headers, H_X_Amz_Date :> <<"date">>)
    IN  [req EXCEPT
           !.headers = objectAssign(dated, H_Authorization :> <<"AWS4-HMAC-SHA256">>),
           !.signature = [accessKeyId |-> credentials.accessKeyId,
                          region |-> req.region,
                          service |-> serviceName,
                          method |-> req.method,
                          signedHeaders |-> dated,
                          body |-> req.body]]

\* l.178-189: the request before it is signed
newRequest(m, u, b) ==
    [method |-> m,
     endpoint |-> [href |-> u, host |-> EndpointHost(u)],
     region |-> region,
     body |-> b,
     headers |-> requestHeaders(SdkDefaultHeaders, headers, EndpointHost(u)),
     signature |-> NoObject]

\* l.178-193
createRequest(m, u, b, credentials) ==
    addAuthorization(newRequest(m, u, b), service, credentials)

\* handleRequest called although the signer threw
ThenCreateRequest_sendUnsigned ==
    /\ pc = "pipeline"
    /\ stdinP.state = "fulfilled" /\ credsP.state = "fulfilled"
    /\ \E signerThrows \in BOOLEAN :
         /\ request' = IF signerThrows THEN newRequest(method, url, stdinP.value)
                        ELSE createRequest(method, url, stdinP.value, credsP.value)
         /\ signCount' = IF signerThrows THEN signCount ELSE signCount + 1
    /\ sendCount' = sendCount + 1
    /\ sendP' = Promise("pending", NoObject)
    /\ pc' = "sent"
    /\ UNCHANGED <<cmdline, argv, args, method, url, region, service, headers, stdinP,
                   credsP, settled, response, metadata, arrived, respP, outcome>>

\* l.236-239, the callback of Promise.all: createRequest, then handleRequest,
\* which hands the request to the transport (l.205).  A signer that throws
\* makes the callback throw before handleRequest is called.
ThenCreateRequest ==
    /\ pc = "pipeline"
    /\ allFulfilled(<<stdinP, credsP>>)
    /\ LET values == allValues(<<stdinP, credsP>>)
       IN  \E signerThrows \in BOOLEAN :
             IF signerThrows
             THEN /\ outcome' = handleError(Error("SigningError"))
                  /\ pc' = "exited"
                  /\ UNCHANGED <<request, signCount, sendCount, sendP>>
             ELSE /\ request' = createRequest(method, url, values[1], values[2])
                  /\ signCount' = signCount + 1
                  /\ sendCount' = sendCount + 1
                  /\ sendP' = Promise("pending", NoObject)
                  /\ pc' = "sent"
                  /\ UNCHANGED outcome
    /\ UNCHANGED <<cmdline, argv, args, method, url, region, service, headers, stdinP,
                   credsP, settled, response, metadata, arrived, respP>>

(***************************************************************************)
(* The transport and the response, l.195-229.                              *)
(***************************************************************************)
\* the range off by one at both ends
isFailureStatus_offByOne(statusCode) == statusCode <= 200 \/ statusCode > 300

\* l.220
isFailureStatus(statusCode) == statusCode < 200 \/ statusCode >= 300

\* l.205 -> l.240: the transport calls back with a response; handleRequest's
\* promise resolves and handleResponse (l.208-215) starts collecting
TransportResponse ==
    /\ pc = "sent"
    /\ sendP.state = "pending"
    /\ \E c \in StatusCodes :
         /\ response' = [statusCode |-> c, statusMessage |-> StatusMessage(c),
                         headers |-> ResponseHeaders, stream |-> "flowing"]
         /\ sendP' = settle(sendP, Promise("fulfilled", NoObject))
         /\ metadata' = [statusCode |-> c, statusMessage |-> StatusMessage(c),
                         headers |-> ResponseHeaders, body |-> <<>>]
    /\ respP' = Promise("pending", NoObject)
    /\ pc' = "receiving"
    /\ UNCHANGED <<cmdline, argv, args, method, url, region, service, headers, stdinP,
                   credsP, settled, request, signCount, sendCount, arrived, outcome>>

\* the request sent again after a transport error
TransportError_retry ==
    /\ pc = "sent"
    /\ sendP.state = "pending"
    /\ sendCount < 3
    /\ sendCount' = sendCount + 1
    /\ UNCHANGED <<cmdline, argv, args, method, url, region, service, headers, pc, stdinP,
                   credsP, settled, request, signCount, sendP, response, metadata,
                   arrived, respP, outcome>>

\* l.205 -> l.242: the transport calls back with an error
TransportError ==
    /\ pc = "sent"
    /\ sendP.state = "pending"
    /\ sendP' = settle(sendP, Promise("rejected", NoObject))
    /\ outcome' = handleError(Error("NetworkingError"))
    /\ pc' = "exited"
    /\ UNCHANGED <<cmdline, argv, args, method, url, region, service, headers, stdinP,
                   credsP, settled, request, signCount, sendCount, response, metadata,
                   arrived, respP>>

\* the new chunk in front
appendData_prepend(body, data) == data \o body

\* l.217
appendData(body, data) == body \o data

\* l.216-218
OnData ==
    /\ pc = "receiving"
    /\ response.stream = "flowing"
    /\ Len(arrived) < MaxChunks
    /\ \E data \in Chunks :
         /\ metadata' = [metadata EXCEPT !.body = appendData(metadata.body, data)]
         /\ arrived' = Append(arrived, data)
    /\ UNCHANGED <<cmdline, argv, args, method, url, region, service, headers, pc, stdinP,
                   credsP, settled, request, signCount, sendCount, sendP, response,
                   respP, outcome>>

\* l.219-227 -> l.241 or l.242
OnEnd ==
    /\ pc = "receiving"
    /\ response.stream = "flowing"
    /\ response' = [response EXCEPT !.stream = "ended"]
    /\ IF isFailureStatus(metadata.statusCode)
       THEN /\ respP' = settle(respP, Promise("rejected", NoObject))
            /\ outcome' = handleError([name |-> "Error", response |-> metadata])
            /\ pc' = "exited"
       ELSE /\ respP' = settle(respP, Promise("fulfilled", NoObject))
            /\ outcome' = formatResponse(metadata)
            /\ pc' = "done"
    /\ UNCHANGED <<cmdline, argv, args, method, url, region, service, headers, stdinP,
                   credsP, settled, request, signCount, sendCount, sendP, metadata,
                   arrived>>

\* l.228: what follows a call of reject(err) on handleResponse's promise
onStreamError(p, out, at) ==
    IF p.state = "pending"
    THEN [promise |-> Promise("rejected", NoObject),
          outcome |-> handleError(Error("StreamError")), pc |-> "exited"]
    ELSE [promise |-> p, outcome |-> out, pc |-> at]

\* l.228 -> l.242: the response stream fails while the body is being read
OnError ==
    /\ pc = "receiving"
    /\ response.stream = "flowing"
    /\ response' = [response EXCEPT !.stream = "errored"]
    /\ LET r == onStreamError(respP, outcome, pc)
       IN  respP' = r.promise /\ outcome' = r.outcome /\ pc' = r.pc
    /\ UNCHANGED <<cmdline, argv, args, method, url, region, service, headers, stdinP,
                   credsP, settled, request, signCount, sendCount, sendP, metadata,
                   arrived>>

\* l.228: the response stream fails after its end event, while the process is
\* still running
LateError ==
    /\ pc = "done"
    /\ response.stream = "ended"
    /\ response' = [response EXCEPT !.stream = "errored"]
    /\ LET r == onStreamError(respP, outcome, pc)
       IN  respP' = r.promise /\ outcome' = r.outcome /\ pc' = r.pc
    /\ UNCHANGED <<cmdline, argv, args, method, url, region, service, headers, stdinP,
                   credsP, settled, request, signCount, sendCount, sendP, metadata,
                   arrived>>

Next ==
    \/ ParseArgs
    \/ ResolveRegion
    \/ ResolveService
    \/ ParseHeaders
    \/ StartPipeline
    \/ StdinResolve
    \/ StdinError
    \/ CredentialsResolve
    \/ CredentialsReject
    \/ ThenCreateRequest
    \/ TransportResponse
    \/ TransportError
    \/ OnData
    \/ OnEnd
    \/ OnError
    \/ LateError

Spec == Init /\ [][Next]_vars

(***************************************************************************)
(* Properties.                                                             *)
(***************************************************************************)
\* the URL argument of the command line
U == cmdline.urlArg
\* the host typed is <labels>.amazonaws.com
AwsHost == ~U.malformed /\ U.domain = D_amazonaws_com
HasHyphen(l) == \E i \in 1..Len(l) : l[i] = "-"
IsWordLabel(l) == Len(l) > 0 /\ AllIn(l, 1, Len(l), WordChar)
\* the longest suffix of l made of word characters
WordTail(l) ==
    SubSeq(l, Min({i \in 1..(Len(l)+1) : AllIn(l, i, Len(l), WordChar)}), Len(l))
\* l.85-88 have run / l.90-93 have run
RegionStepRan ==
    pc \notin {"start", "parsed"} /\ ~(pc = "exited" /\ outcome.at = 80)
ServiceStepRan ==
    pc \notin {"start", "parsed", "region"}
    /\ ~(pc = "exited" /\ outcome.at \in {80, 87})
\* the authority of the URL typed, as the request should carry it
TypedAuthority ==
    toLowerCase(JoinLabels(U.labels) \o U.domain)
    \o (IF U.tail = T_port_path THEN <<":","8","4","4","3">> ELSE <<>>)
HostNames(h) == {k \in DOMAIN h : toLowerCase(k) = H_host}
RECURSIVE Concat(_)
Concat(chunks) == IF chunks = <<>> THEN <<>> ELSE Head(chunks) \o Concat(Tail(chunks))
Is2xx(c) == 200 <= c /\ c < 300

C3_OverrideWins ==
    /\ (argv.region # NULL /\ RegionStepRan)
       => /\ region = argv.region
          /\ ~(pc = "exited" /\ outcome.at = 87)
    /\ (argv.service # NULL /\ ServiceStepRan)
       => /\ service = argv.service
          /\ ~(pc = "exited" /\ outcome.at = 92)
    /\ (request # NoObject /\ argv.region # NULL)
       => request.region = argv.region /\ request.signature.region = argv.region
    /\ (request # NoObject /\ argv.service # NULL)
       => request.signature.service = argv.service

\* us-west-2.dynamodb.amazonaws.com, whose host names another region and
\* service, signed for the region and the service of the options
C3_Witness ==
    /\ AwsHost /\ U.labels = <<L_us_west_2, L_dynamodb>>
    /\ request # NoObject
    /\ request.signature.region = R_eu_west_1
    /\ request.signature.service = V_s3

\* C4: a host that matches no pattern, without override, ends in a
\* RegionResolutionError (l.87) or a ServiceResolutionError (l.92), with no
\* credentials asked for and no request signed or sent.
C4_ResolutionErrorIsTyped ==
    (pc = "exited" /\ outcome.at \in {87, 92})
    => /\ outcome.error = (IF outcome.at = 87 THEN "RegionResolutionError"
                           ELSE "ServiceResolutionError")
       /\ credsP.state = "none" /\ signCount = 0 /\ sendCount = 0

\* C5 as stated: the request has exactly one host header; it is the URL's
\* authority unless the caller gave a host header, and then the caller's.
C5_CallerHostWins ==
    (request # NoObject)
    => /\ Cardinality(HostNames(request.headers)) = 1
       /\ request.headers[H_host] =
            (IF H_host \in DOMAIN headers THEN headers[H_host] ELSE TypedAuthority)

\* C5 amended: the request has exactly one host header, and it is the URL's
\* authority also when the caller gave a host header: the derived host header
\* replaces the caller's, in the request sent and in the headers signed.
C5_HostIsUrlAuthority ==
    (request # NoObject)
    => /\ Cardinality(HostNames(request.headers)) = 1
       /\ request.headers[H_host] = TypedAuthority
       /\ request.signature.signedHeaders[H_host] = TypedAuthority

\* a request built from a command line with a Host: header, and a port
C5_Witness ==
    /\ request # NoObject
    /\ U.tail = T_port_path
    /\ H_host \in DOMAIN headers
    /\ headers[H_host] # request.headers[H_host]

\* the end event of the response has been handled (l.219-227)
EndSeen ==
    /\ response # NoObject
    /\ \/ response.stream = "ended"
       \/ response.stream = "errored" /\ respP.state = "fulfilled"
\* what handleResponse has collected from the response
Collected ==
    [statusCode |-> response.statusCode, statusMessage |-> response.statusMessage,
     headers |-> response.headers, body |-> Concat(arrived)]

\* C6: once the response has ended, the run is a success exactly when
\* 200 <= statusCode < 300, and otherwise a failure that shows the whole
\* response (status code, status message, headers, body); a transport or
\* stream error is a failure that shows no response.
C6_StatusDecidesOutcome ==
    /\ EndSeen
       => /\ (outcome.kind = "success") <=> Is2xx(response.statusCode)
          /\ (outcome.kind = "failure") <=> ~Is2xx(response.statusCode)
          /\ outcome.printed = "response"
          /\ outcome.shown = Collected
          /\ outcome.channel = (IF Is2xx(response.statusCode) THEN "info" ELSE "error")
          /\ outcome.exitCode = (IF Is2xx(response.statusCode) THEN 0 ELSE 1)
    /\ outcome.error \in {"NetworkingError", "StreamError"}
       => /\ outcome.kind = "failure"
          /\ outcome.shown = NoObject
          /\ outcome.printed = "stack"

\* a response with status 300 and a body has ended: a failure showing it
C6_Witness ==
    /\ EndSeen
    /\ response.statusCode = 300
    /\ Len(arrived) = 2
    /\ outcome.kind = "failure"
    /\ outcome.shown.body = Concat(arrived)

\* an upstream failure: the URL, the region, the service or standard input
\* (uncaught exceptions), the credentials or the signer
UpstreamFailure ==
    \/ outcome.channel = "uncaught"
    \/ outcome.error \in {"CredentialsError", "SigningError"}

\* C7: whenever the transport has been invoked, the request handed to it is
\* built and signed, from a body and credentials that were both acquired and
\* a URL, region and service that were resolved; after an upstream failure
\* the transport has not been invoked and the run has failed.
C7_SentOnlyAfterSigned ==
    /\ sendCount > 0
       => /\ request # NoObject
          /\ request.signature # NoObject
          /\ H_Authorization \in DOMAIN request.headers
          /\ signCount >= sendCount
          /\ stdinP.state = "fulfilled" /\ credsP.state = "fulfilled"
          /\ url # NULL /\ region # NULL /\ service # NULL
    /\ UpstreamFailure
       => /\ sendCount = 0
          /\ pc = "exited"
          /\ outcome.kind = "failure" /\ outcome.exitCode = 1

\* the signer threw: the run has failed and nothing was sent
C7_Witness ==
    /\ outcome.error = "SigningError"
    /\ stdinP.state = "fulfilled" /\ credsP.state = "fulfilled"
    /\ sendCount = 0
    /\ pc = "exited"

\* C8: in whatever order standard input and the credentials complete, the
\* request exists only once both have, and it carries the body read and is
\* signed with the credentials obtained.
C8_RequestAfterBoth ==
    (request # NoObject)
    => /\ stdinP.state = "fulfilled" /\ credsP.state = "fulfilled"
       /\ Len(settled) = 2
       /\ request.body = stdinP.value
       /\ request.signature.body = stdinP.value
       /\ request.signature.accessKeyId = credsP.value.accessKeyId

\* a request built when standard input completed before the credentials
C8_Witness ==
    /\ request # NoObject
    /\ settled = <<"stdin", "credentials">>
    /\ request.body # <<>>
    /\ request.signature.accessKeyId = EnvCredentials.accessKeyId

\* C9: a run signs at most once and sends at most once; a failure ends the
\* process with exit code 1, after which nothing more happens.
C9_FailureIsTerminal ==
    /\ signCount <= 1
    /\ sendCount <= 1
    /\ outcome.kind = "failure"
       => /\ pc = "exited"
          /\ outcome.exitCode = 1
          /\ ~ENABLED Next

\* a transport error after the one send
C9_Witness ==
    /\ outcome.error = "NetworkingError"
    /\ sendCount = 1 /\ signCount = 1
    /\ pc = "exited"

\* C10: nothing is decided while the body is being read; what is shown at the
\* end event has as body the chunks received, concatenated in arrival order;
\* a stream error after some chunks is a failure that shows no response; an
\* error event after the end event leaves the outcome as it was.
C10_DecidedAtEnd ==
    /\ pc = "receiving" => outcome.kind = "none" /\ respP.state = "pending"
    /\ outcome.printed = "response"
       => /\ EndSeen
          /\ outcome.shown.body = Concat(arrived)
          /\ metadata.body = Concat(arrived)
    /\ outcome.error = "StreamError"
       => /\ outcome.kind = "failure"
          /\ outcome.shown = NoObject
          /\ respP.state = "rejected"
    /\ (response # NoObject /\ response.stream = "errored" /\ respP.state = "fulfilled")
       => /\ outcome = formatResponse(Collected)
          /\ pc = "done"

\* an error event after the end of a response of two different chunks
C10_Witness ==
    /\ response # NoObject
    /\ response.stream = "errored"
    /\ respP.state = "fulfilled"
    /\ Len(arrived) = 2
    /\ arrived[1] # arrived[2]
    /\ outcome.kind = "success"

====
